---- MODULE Spec2Model ----
(***************************************************************************)
(* miniserde: the dynamic Value tree with its non-recursive teardown, the  *)
(* Visitor / Seq / Map deserialization protocol, and Serialize::begin.      *)
(***************************************************************************)
EXTENDS Integers, Sequences, FiniteSets, TLC

\* Largest number of nodes of a Value tree that is torn down.
MaxNodes == 5

VARIABLES
    root,       \* the Value whose owner goes out of scope
    dpc,        \* "live" | "dropping" | "done"
    frames,     \* call stack of the teardown, innermost frame last
    released,   \* ids of the nodes whose storage has been released
    doubled,    \* ids of the nodes released more than once
    popped,     \* whether the work list has been popped at all
    dest,       \* the destination type of the top-level place
    out,        \* the top-level place: <<>> (None) or <<v>> (Some(v))
    hs,         \* the open Seq / Map handles, innermost last
    pc,         \* where the driver stands in the protocol
    calls,      \* number of protocol calls made so far
    res,        \* what the last protocol call returned: "Ok" | "Err"
    last,       \* the last protocol call: method, target type, key
    orig,       \* the Value being serialized
    its,        \* the Seq / Map fragment iterators being walked
    cur,        \* the Value whose begin() is due: <<>> or <<v>>
    frag,       \* the fragment begin() returned: <<>> or <<f>>
    begins      \* how often begin() was called on the value that is due

dropvars == <<root, dpc, frames, released, doubled, popped>>

devars == <<dest, out, hs, pc, calls, res, last>>

servars == <<orig, its, cur, frag, begins>>

vars == <<dropvars, devars, servars>>

-----------------------------------------------------------------------------
\* json::Value and json::Number

NumberU64(n) == [rep |-> "U64", v |-> n]

NumberI64(n) == [rep |-> "I64", v |-> n]

NumberF64(n) == [rep |-> "F64", v |-> n]

ValueNull == [tag |-> "Null"]

ValueBool(b) == [tag |-> "Bool", b |-> b]

ValueNumber(n) == [tag |-> "Number", n |-> n]

ValueString(s) == [tag |-> "String", s |-> s]

\* Array { inner: Vec<Value> }
ValueArray(inner) == [tag |-> "Array", inner |-> inner]

\* Object: ordered-insertion map, entries [k, v] with unique keys
ValueObject(entries) == [tag |-> "Object", entries |-> entries]

IsComposite(v) == v.tag \in {"Array", "Object"}

\* Array::new()
ArrayNew == ValueArray(<<>>)

ObjectNew == ValueObject(<<>>)

KeyNames == <<"a", "b", "c", "d", "e", "f", "g", "h">>

\* The entries of an object over the values f, keyed in the order of KeyNames
\* or in the reverse order.
Keyed(f, rev) ==
    [i \in 1..Len(f) |->
        [k |-> KeyNames[IF rev THEN Len(f) + 1 - i ELSE i], v |-> f[i]]]

\* The Values of n nodes (t) and the sequences of Values of n nodes in all
\* (f), for n = Len(tab) + 1, from those of fewer nodes in tab; the sequences
\* are left out at the largest size max, where nothing is built from them.
Level(tab, L, R, max) ==
    LET n == Len(tab) + 1
        F(m) == IF m = 0 THEN {<<>>} ELSE tab[m].f
        t == IF n = 1 THEN L \cup {ArrayNew, ObjectNew}
             ELSE {ValueArray(f) : f \in F(n - 1)}
                  \cup {ValueObject(Keyed(f, r)) : f \in F(n - 1), r \in R}
        T(k) == IF k = n THEN t ELSE tab[k].t
    IN  [t |-> t,
         f |-> IF n = max THEN {}
               ELSE UNION {{<<x>> \o g : x \in T(k), g \in F(n - k)} : k \in 1..n}]

RECURSIVE Levels(_, _, _, _)
\* tab extended up to the size max.
Levels(tab, L, R, max) ==
    IF Len(tab) >= max THEN tab
    ELSE Levels(Append(tab, Level(tab, L, R, max)), L, R, max)

\* v is a Value of at most Len(tab) + 1 nodes: one of a single node, or an
\* array or an object over a sequence of Values from tab, the keys of the
\* object in the order of KeyNames or (with TRUE in R) in the reverse order.
IsTree(v, tab, R) ==
    \/ v \in tab[1].t
    \/ \E m \in 1..Len(tab) : \E k \in 1..m :
         \E x \in tab[k].t :
           \E g \in (IF k = m THEN {<<>>} ELSE tab[m - k].f) :
             \/ v = ValueArray(<<x>> \o g)
             \/ \E r \in R : v = ValueObject(Keyed(<<x>> \o g, r))

DropLeaves == {ValueNull, ValueString("s")}

\* The Values of fewer than MaxNodes nodes that a torn-down tree is built from.
DropTab == Levels(<<>>, DropLeaves, {FALSE}, MaxNodes - 1)

-----------------------------------------------------------------------------
\* Teardown.  A node is named by its path from the root; an owned Value on a
\* work list is the pair of its id and its content.

Owned(id, v) == [id |-> id, v |-> v]

ChildValues(v) ==
    IF v.tag = "Array" THEN v.inner
    ELSE IF v.tag = "Object" THEN [i \in 1..Len(v.entries) |-> v.entries[i].v]
    ELSE <<>>

\* The direct children of an owned composite, each with its own id.
Children(e) ==
    LET cs == ChildValues(e.v)
    IN  [i \in 1..Len(cs) |-> Owned(Append(e.id, i), cs[i])]

RECURSIVE NodeIds(_)
NodeIds(e) ==
    {e.id} \cup UNION {NodeIds(Children(e)[i]) : i \in 1..Len(Children(e))}

RECURSIVE Depth(_)
Depth(v) ==
    IF ChildValues(v) = <<>> THEN 0
    ELSE LET ds == {Depth(ChildValues(v)[i]) : i \in 1..Len(ChildValues(v))}
         IN  1 + CHOOSE d \in ds : \A x \in ds : x <= d

Frame(fn, self, work) == [fn |-> fn, self |-> self, work |-> work]

\* fn take(array: Array) -> Vec<Value> without ManuallyDrop: the elements are
\* read out and the Array's own Drop still runs on them.
takeNoManuallyDrop(a) == [vec |-> Children(a), dropRuns |-> TRUE]

\* fn take(array: Array) -> Vec<Value>
take(a) == [vec |-> Children(a), dropRuns |-> FALSE]

\* impl IntoIterator for Array
into_iter(a) == take(a)

\* Object's by-value iteration, the counterpart of Array's.
ObjectIntoIter(o) == [vec |-> Children(o), dropRuns |-> FALSE]

\* The frame of Array::drop on a: drain(..) has moved every child out of inner.
ArrayDropFrame(a) == Frame("Array::drop", a.id, Children(a))

ObjectDropFrame(o) == Frame("Object::drop", o.id, Children(o))

\* The language's drop glue for a Value: a leaf is released at once, a
\* composite runs its Drop impl.
DropInPlace(e) ==
    IF e.v.tag = "Array" THEN [push |-> <<ArrayDropFrame(e)>>, rel |-> {}]
    ELSE IF e.v.tag = "Object" THEN [push |-> <<ObjectDropFrame(e)>>, rel |-> {}]
    ELSE [push |-> <<>>, rel |-> {e.id}]

\* drop::safely(value): a work list seeded with the value.
SafelyFrame(child) == Frame("safely", <<>>, <<child>>)

\* for_each(core::mem::drop): the default structural teardown of a child.
ArrayDropEachDefault(child) == DropInPlace(child)

\* .for_each(drop::safely)
ArrayDropEach(child) == [push |-> <<SafelyFrame(child)>>, rel |-> {}]

\* A drain whose iterator does not advance.
DrainStuck(work) == work

\* What drain(..) still holds after yielding its first element.
DrainRest(work) == Tail(work)

\* The deserialization and serialization state of a run that only tears down.
DeIdle ==
    /\ dest = "none"
    /\ out = <<>>
    /\ hs = <<>>
    /\ pc = "idle"
    /\ calls = 0
    /\ res = "none"
    /\ last = [m |-> "none", ty |-> "none", k |-> ""]

SerIdle ==
    /\ orig = ValueNull
    /\ its = <<>>
    /\ cur = <<>>
    /\ frag = <<>>
    /\ begins = 0

\* The teardown state of a run that tears nothing down.
DropIdle ==
    /\ root = ValueNull
    /\ dpc = "idle"
    /\ frames = <<>>
    /\ released = {}
    /\ doubled = {}
    /\ popped = FALSE

Top == frames[Len(frames)]

Below == SubSeq(frames, 1, Len(frames) - 1)

Release(ids) ==
    /\ released' = released \cup ids
    /\ doubled' = doubled \cup (ids \cap released)

RootOwned == Owned(<<>>, root)

\* The owner of root goes out of scope.
DropRoot ==
    /\ dpc = "live"
    /\ LET d == DropInPlace(RootOwned)
       IN  /\ frames' = d.push
           /\ Release(d.rel)
           /\ dpc' = IF d.push = <<>> THEN "done" ELSE "dropping"
    /\ UNCHANGED <<root, popped, devars, servars>>

\* Array::drop / Object::drop: the next drained child goes to drop::safely.
DrainNext ==
    /\ dpc = "dropping"
    /\ Top.fn \in {"Array::drop", "Object::drop"}
    /\ Top.work # <<>>
    /\ LET d == ArrayDropEach(Head(Top.work))
       IN  /\ frames' = Append(Below, [Top EXCEPT !.work = DrainRest(Top.work)])
                            \o d.push
           /\ Release(d.rel)
    /\ UNCHANGED <<root, dpc, popped, devars, servars>>

\* Array::drop / Object::drop returns; the emptied shell is released.
DropReturn ==
    /\ dpc = "dropping"
    /\ Top.fn \in {"Array::drop", "Object::drop"}
    /\ Top.work = <<>>
    /\ frames' = Below
    /\ Release({Top.self})
    /\ dpc' = IF Below = <<>> THEN "done" ELSE "dropping"
    /\ UNCHANGED <<root, popped, devars, servars>>

\* One iteration of drop::safely's loop: pop one Value; a leaf is released, a
\* composite hands its children to the work list and its shell is released.
SafelyPop ==
    /\ dpc = "dropping"
    /\ Top.fn = "safely"
    /\ Top.work # <<>>
    /\ LET e == Top.work[Len(Top.work)]
           rest == SubSeq(Top.work, 1, Len(Top.work) - 1)
           r == IF e.v.tag = "Array" THEN into_iter(e)
                ELSE IF e.v.tag = "Object" THEN ObjectIntoIter(e)
                ELSE [vec |-> <<>>, dropRuns |-> FALSE]
       IN  /\ frames' = Append(Below, [Top EXCEPT !.work = rest \o r.vec])
                            \o (IF r.dropRuns THEN DropInPlace(e).push ELSE <<>>)
           /\ Release({e.id})
    /\ popped' = TRUE
    /\ UNCHANGED <<root, dpc, devars, servars>>

\* drop::safely returns once its work list is empty.
SafelyReturn ==
    /\ dpc = "dropping"
    /\ Top.fn = "safely"
    /\ Top.work = <<>>
    /\ frames' = Below
    /\ UNCHANGED <<root, dpc, released, doubled, popped, devars, servars>>

InitDrop ==
    /\ IsTree(root, DropTab, {FALSE})
    /\ dpc = "live"
    /\ frames = <<>>
    /\ released = {}
    /\ doubled = {}
    /\ popped = FALSE
    /\ DeIdle
    /\ SerIdle

NextDrop ==
    \/ DropRoot
    \/ DrainNext
    \/ DropReturn
    \/ SafelyPop
    \/ SafelyReturn

SpecDrop == InitDrop /\ [][NextDrop]_vars

\* The teardown is straight-line synchronous code: it runs to completion.
FairSpecDrop == SpecDrop /\ WF_vars(NextDrop)

-----------------------------------------------------------------------------
\* Deserialization: places, Visitor, Seq, Map

\* Largest number of protocol calls an arbitrary driver makes.
MaxCalls == 9

Methods ==
    {"null", "boolean", "string", "negative", "nonnegative", "float", "seq", "map"}

\* The destination types: bool, Value, Vec<bool>, and a record type
\* struct { a: bool, b: Vec<bool> }.
DestTypes == {"bool", "value", "vec_bool", "record"}

RecordFields == <<[k |-> "a", ty |-> "bool"], [k |-> "b", ty |-> "vec_bool"]>>

RecordKeys == {RecordFields[i].k : i \in 1..Len(RecordFields)}

FieldType(k) == RecordFields[CHOOSE i \in 1..Len(RecordFields) : RecordFields[i].k = k].ty

\* The Visitor methods a destination type implements itself.
Overrides(ty) ==
    IF ty = "bool" THEN {"boolean"}
    ELSE IF ty = "value" THEN Methods
    ELSE IF ty = "vec_bool" THEN {"seq"}
    ELSE {"map"}

\* The arguments a driver passes to a method.
MethodArgs(m) ==
    IF m = "boolean" THEN {[b |-> TRUE], [b |-> FALSE]}
    ELSE IF m = "string" THEN {[s |-> "s"]}
    ELSE IF m = "negative" THEN {[n |-> -1], [n |-> 1]}
    ELSE IF m = "nonnegative" THEN {[n |-> 1]}
    ELSE IF m = "float" THEN {[n |-> 1]}
    ELSE {[none |-> TRUE]}

DriverKeys == {"a", "b", "z"}

\* A Visitor default that accepts the call and ignores it.
VisitorDefaultIgnore(m, place) == [res |-> "Ok", place |-> place]

\* trait Visitor: the default body of every method is Err(Error); the place
\* is not touched.
VisitorDefault(m, place) == [res |-> "Err", place |-> place]

\* What a destination's own primitive method stores into its place.
Primitive(m, arg) ==
    IF m = "null" THEN ValueNull
    ELSE IF m = "boolean" THEN ValueBool(arg.b)
    ELSE IF m = "string" THEN ValueString(arg.s)
    ELSE IF m = "negative" THEN ValueNumber(NumberI64(arg.n))
    ELSE IF m = "nonnegative" THEN ValueNumber(NumberU64(arg.n))
    ELSE ValueNumber(NumberF64(arg.n))

\* The handle that seq() / map() returns for a place of type ty: nothing
\* collected, its element place empty, no key pending.
NewHandle(m, ty) ==
    [kind |-> m, ty |-> ty, vec |-> <<>>, slot |-> <<>>, key |-> <<>>]

\* The type of the place a handle's element() / key() hands out.
SlotType(h) ==
    IF h.ty = "value" THEN "value"
    ELSE IF h.ty = "vec_bool" THEN "bool"
    ELSE FieldType(h.key[1])

\* entries with the value of key k set to v: replaced in place, else appended.
Insert(entries, k, v) ==
    IF \E i \in 1..Len(entries) : entries[i].k = k
    THEN [i \in 1..Len(entries) |->
             IF entries[i].k = k THEN [k |-> k, v |-> v] ELSE entries[i]]
    ELSE Append(entries, [k |-> k, v |-> v])

\* The elements or entries of a handle once its element place is taken.
Shifted(h) ==
    IF h.slot = <<>> THEN h.vec
    ELSE IF h.kind = "seq" THEN Append(h.vec, [k |-> "", v |-> h.slot[1]])
    ELSE Insert(h.vec, h.key[1], h.slot[1])

Values(entries) == [i \in 1..Len(entries) |-> entries[i].v]

HasKey(entries, k) == \E i \in 1..Len(entries) : entries[i].k = k

ValueOf(entries, k) == entries[CHOOSE i \in 1..Len(entries) : entries[i].k = k].v

\* A Seq that writes what it has collected so far into its place on every
\* element().
SeqElementEager(h) ==
    [res |-> "Ok",
     h |-> [h EXCEPT !.vec = Shifted(h), !.slot = <<>>],
     commit |-> <<ValueArray(Values(Shifted(h)))>>]

\* Seq::element: the previous element is taken into the collection and a
\* fresh empty element place is handed out; the bound place is not written.
SeqElement(h) ==
    [res |-> "Ok",
     h |-> [h EXCEPT !.vec = Shifted(h), !.slot = <<>>],
     commit |-> <<>>]

\* Seq::finish: commits all produced elements into the bound place.
SeqFinish(h) ==
    [res |-> "Ok", h |-> h, commit |-> <<ValueArray(Values(Shifted(h)))>>]

\* A Map that accepts any key.
MapKeyPermissive(h, k) ==
    [res |-> "Ok",
     h |-> [h EXCEPT !.vec = Shifted(h), !.slot = <<>>,
                     !.key = <<IF h.ty = "record" /\ k \notin RecordKeys
                                THEN "a" ELSE k>>],
     commit |-> <<>>]

\* Map::key: fails on a key the destination does not recognize; otherwise the
\* previous entry is taken and the place of the key's value is handed out.
MapKey(h, k) ==
    IF h.ty = "record" /\ k \notin RecordKeys
    THEN [res |-> "Err", h |-> h, commit |-> <<>>]
    ELSE [res |-> "Ok",
          h |-> [h EXCEPT !.vec = Shifted(h), !.slot = <<>>, !.key = <<k>>],
          commit |-> <<>>]

\* Map::finish: validates that all required keys were supplied and commits.
MapFinish(h) ==
    IF h.ty = "record"
    THEN IF \A k \in RecordKeys : HasKey(Shifted(h), k)
         THEN [res |-> "Ok", h |-> h,
               commit |-> <<ValueObject(
                   [i \in 1..Len(RecordFields) |->
                       [k |-> RecordFields[i].k,
                        v |-> ValueOf(Shifted(h), RecordFields[i].k)]])>>]
         ELSE [res |-> "Err", h |-> h, commit |-> <<>>]
    ELSE [res |-> "Ok", h |-> h, commit |-> <<ValueObject(Shifted(h))>>]

TopH == hs[Len(hs)]

PopH == SubSeq(hs, 1, Len(hs) - 1)

\* The type of the place the current visitor is bound to.
TargetType == IF hs = <<>> THEN dest ELSE SlotType(TopH)

\* The content of the place the current visitor is bound to.
TargetPlace == IF hs = <<>> THEN out ELSE TopH.slot

\* The state after a call returned r ("Ok" | "Err") with the places p (the
\* top-level place) and h (the handles): the first failure ends the run.
Returned(m, ty, k, r, p, h) ==
    /\ calls' = calls + 1
    /\ last' = [m |-> m, ty |-> ty, k |-> k]
    /\ res' = r
    /\ out' = p
    /\ hs' = h
    /\ pc' = IF r = "Err" THEN "failed"
             ELSE IF h = <<>> THEN "done"
             ELSE IF m \in {"element", "key"} THEN "visitor"
             ELSE "handle"
    /\ UNCHANGED dest

\* hs with the element place of the innermost handle set to p.
WithSlot(h, p) == [h EXCEPT ![Len(h)].slot = p]

\* One call of method m on the current visitor.
DoVisit(m, arg) ==
    /\ pc = "visitor"
    /\ IF m \notin Overrides(TargetType)
       THEN LET d == VisitorDefault(m, TargetPlace)
            IN  IF hs = <<>>
                THEN Returned(m, TargetType, "", d.res, d.place, hs)
                ELSE Returned(m, TargetType, "", d.res, out, WithSlot(hs, d.place))
       ELSE IF m \in {"seq", "map"}
       THEN Returned(m, TargetType, "", "Ok", out,
                     Append(hs, NewHandle(m, TargetType)))
       ELSE IF hs = <<>>
       THEN Returned(m, TargetType, "", "Ok", <<Primitive(m, arg)>>, hs)
       ELSE Returned(m, TargetType, "", "Ok", out,
                     WithSlot(hs, <<Primitive(m, arg)>>))

\* The places after the innermost handle returned r: its own state is r.h,
\* and r.commit, when there is one, is written into the place it is bound to;
\* pop says whether the handle is done with.
Commit(r, pop) ==
    LET kept == IF pop THEN PopH ELSE Append(PopH, r.h)
    IN  IF r.commit = <<>> THEN [out |-> out, hs |-> kept]
        ELSE IF PopH = <<>> THEN [out |-> r.commit, hs |-> kept]
        ELSE [out |-> out,
              hs |-> IF pop THEN WithSlot(PopH, r.commit)
                     ELSE Append(WithSlot(PopH, r.commit), r.h)]

\* element() on the innermost handle, a Seq.
DoElement ==
    /\ pc = "handle"
    /\ TopH.kind = "seq"
    /\ LET r == SeqElement(TopH)
           c == Commit(r, FALSE)
       IN  Returned("element", TopH.ty, "", r.res, c.out, c.hs)

\* key(k) on the innermost handle, a Map.
DoKey(k) ==
    /\ pc = "handle"
    /\ TopH.kind = "map"
    /\ LET r == MapKey(TopH, k)
           c == Commit(r, FALSE)
       IN  Returned("key", TopH.ty, k, r.res, c.out, c.hs)

\* finish() on the innermost handle.
DoFinish ==
    /\ pc = "handle"
    /\ LET r == IF TopH.kind = "seq" THEN SeqFinish(TopH) ELSE MapFinish(TopH)
           c == IF r.res = "Ok" THEN Commit(r, TRUE) ELSE Commit(r, FALSE)
       IN  Returned("finish", TopH.ty, "", r.res, c.out, c.hs)

\* The arbitrary driver calls a method on the visitor it holds.
Visit ==
    /\ calls < MaxCalls
    /\ \E m \in Methods : \E arg \in MethodArgs(m) : DoVisit(m, arg)
    /\ UNCHANGED <<dropvars, servars>>

Element ==
    /\ calls < MaxCalls
    /\ DoElement
    /\ UNCHANGED <<dropvars, servars>>

Key ==
    /\ calls < MaxCalls
    /\ \E k \in DriverKeys : DoKey(k)
    /\ UNCHANGED <<dropvars, servars>>

Finish ==
    /\ calls < MaxCalls
    /\ DoFinish
    /\ UNCHANGED <<dropvars, servars>>

\* The driver gives up and drops its handles without calling finish().
Abandon ==
    /\ pc \in {"visitor", "handle"}
    /\ hs # <<>>
    /\ pc' = "abandoned"
    /\ hs' = <<>>
    /\ UNCHANGED <<dest, out, calls, res, last, dropvars, servars>>

\* Deserialize::begin(out) on an empty place.
InitDe ==
    /\ dest \in DestTypes
    /\ out = <<>>
    /\ hs = <<>>
    /\ pc = "visitor"
    /\ calls = 0
    /\ res = "none"
    /\ last = [m |-> "begin", ty |-> dest, k |-> ""]
    /\ DropIdle
    /\ SerIdle

NextDe ==
    \/ Visit
    \/ Element
    \/ Key
    \/ Finish
    \/ Abandon

SpecDe == InitDe /\ [][NextDe]_vars

-----------------------------------------------------------------------------
\* Serialization: Serialize::begin and the replay of its fragments into a
\* fresh place for Value

\* Largest number of nodes of a Value that is serialized.
MaxSerNodes == 4

FragmentNull == [kind |-> "Null"]

FragmentBool(b) == [kind |-> "Bool", b |-> b]

FragmentStr(s) == [kind |-> "Str", s |-> s]

FragmentU64(n) == [kind |-> "U64", n |-> n]

FragmentI64(n) == [kind |-> "I64", n |-> n]

FragmentF64(n) == [kind |-> "F64", n |-> n]

\* Fragment::Seq over the elements still to be yielded
FragmentSeq(iter) == [kind |-> "Seq", iter |-> iter]

\* Fragment::Map over the entries still to be yielded
FragmentMap(iter) == [kind |-> "Map", iter |-> iter]

FragmentKinds == {"Null", "Bool", "Str", "U64", "I64", "F64", "Seq", "Map"}

\* A begin that renders an unsigned number as a signed one.
NumberBeginAsSigned(number) ==
    IF number.rep = "F64" THEN FragmentF64(number.v) ELSE FragmentI64(number.v)

\* impl Serialize for Number
NumberBegin(number) ==
    IF number.rep = "U64" THEN FragmentU64(number.v)
    ELSE IF number.rep = "I64" THEN FragmentI64(number.v)
    ELSE FragmentF64(number.v)

\* private::stream_slice: a Seq fragment over the slice, in index order.
stream_slice(slice) == FragmentSeq(slice)

\* A begin that streams the elements last to first.
ArrayBeginReversed(array) ==
    stream_slice([i \in 1..Len(array.inner) |->
                     array.inner[Len(array.inner) + 1 - i]])

\* impl Serialize for Array
ArrayBegin(array) == stream_slice(array.inner)

\* Object's begin: a Map fragment over its entries, in insertion order.
ObjectBegin(object) == FragmentMap(object.entries)

\* impl Serialize for Value
ValueBegin(v) ==
    IF v.tag = "Null" THEN FragmentNull
    ELSE IF v.tag = "Bool" THEN FragmentBool(v.b)
    ELSE IF v.tag = "Number" THEN NumberBegin(v.n)
    ELSE IF v.tag = "String" THEN FragmentStr(v.s)
    ELSE IF v.tag = "Array" THEN ArrayBegin(v)
    ELSE ObjectBegin(v)

SerLeaves ==
    {ValueNull, ValueBool(TRUE), ValueString("s"),
     ValueNumber(NumberU64(1)), ValueNumber(NumberI64(1)),
     ValueNumber(NumberI64(-1)), ValueNumber(NumberF64(1))}

\* The Values of fewer than MaxSerNodes nodes that a serialized Value is
\* built from.
SerTab == Levels(<<>>, SerLeaves, {FALSE, TRUE}, MaxSerNodes - 1)

\* The Visitor method that replays a primitive or composite fragment.
VisitorMethod(f) ==
    IF f.kind = "Null" THEN "null"
    ELSE IF f.kind = "Bool" THEN "boolean"
    ELSE IF f.kind = "Str" THEN "string"
    ELSE IF f.kind = "U64" THEN "nonnegative"
    ELSE IF f.kind = "I64" THEN "negative"
    ELSE IF f.kind = "F64" THEN "float"
    ELSE IF f.kind = "Seq" THEN "seq"
    ELSE "map"

TopIt == its[Len(its)]

\* its with the innermost iterator advanced by one.
Advanced == [its EXCEPT ![Len(its)].rest = Tail(TopIt.rest)]

\* Serialize::begin on the value that is due.
ReplayBegin ==
    /\ cur # <<>>
    /\ frag = <<>>
    /\ frag' = <<ValueBegin(cur[1])>>
    /\ begins' = 1
    /\ UNCHANGED <<orig, its, cur, devars, dropvars>>

\* Serialize::begin once more on the same value.
BeginAgain ==
    /\ cur # <<>>
    /\ frag # <<>>
    /\ begins = 1
    /\ frag' = <<ValueBegin(cur[1])>>
    /\ begins' = begins + 1
    /\ UNCHANGED <<orig, its, cur, devars, dropvars>>

\* The fragment is replayed as the matching Visitor call; a Seq or Map
\* fragment leaves its iterator to be driven.
ReplayVisit ==
    /\ frag # <<>>
    /\ DoVisit(VisitorMethod(frag[1]), frag[1])
    /\ its' = IF frag[1].kind \in {"Seq", "Map"}
              THEN Append(its, [kind |-> frag[1].kind, rest |-> frag[1].iter])
              ELSE its
    /\ cur' = <<>>
    /\ frag' = <<>>
    /\ begins' = 0
    /\ UNCHANGED <<orig, dropvars>>

\* The next element of a Seq fragment: element(), then its begin is due.
ReplayElement ==
    /\ cur = <<>>
    /\ its # <<>>
    /\ TopIt.kind = "Seq"
    /\ TopIt.rest # <<>>
    /\ DoElement
    /\ cur' = <<Head(TopIt.rest)>>
    /\ its' = Advanced
    /\ UNCHANGED <<orig, frag, begins, dropvars>>

\* The next entry of a Map fragment: key(k), then the begin of its value is due.
ReplayKey ==
    /\ cur = <<>>
    /\ its # <<>>
    /\ TopIt.kind = "Map"
    /\ TopIt.rest # <<>>
    /\ DoKey(Head(TopIt.rest).k)
    /\ cur' = <<Head(TopIt.rest).v>>
    /\ its' = Advanced
    /\ UNCHANGED <<orig, frag, begins, dropvars>>

\* The iterator is exhausted: finish().
ReplayFinish ==
    /\ cur = <<>>
    /\ its # <<>>
    /\ TopIt.rest = <<>>
    /\ DoFinish
    /\ its' = SubSeq(its, 1, Len(its) - 1)
    /\ UNCHANGED <<orig, cur, frag, begins, dropvars>>

InitSer ==
    /\ IsTree(orig, SerTab, {FALSE, TRUE})
    /\ its = <<>>
    /\ cur = <<orig>>
    /\ frag = <<>>
    /\ begins = 0
    /\ dest = "value"
    /\ out = <<>>
    /\ hs = <<>>
    /\ pc = "visitor"
    /\ calls = 0
    /\ res = "none"
    /\ last = [m |-> "begin", ty |-> "value", k |-> ""]
    /\ DropIdle

NextSer ==
    \/ ReplayBegin
    \/ BeginAgain
    \/ ReplayVisit
    \/ ReplayElement
    \/ ReplayKey
    \/ ReplayFinish

SpecSer == InitSer /\ [][NextSer]_vars

-----------------------------------------------------------------------------
\* Properties of the teardown

RECURSIVE Chain(_)
\* n - 1 nested single-element arrays around a null.
Chain(n) == IF n = 1 THEN ValueNull ELSE ValueArray(<<Chain(n - 1)>>)

RECURSIVE IsChain(_)
\* A composite of nested single-element composites, down to one childless node.
IsChain(v) ==
    \/ ChildValues(v) = <<>>
    \/ Len(ChildValues(v)) = 1 /\ IsChain(ChildValues(v)[1])

IsDropFrame(f) == f.fn \in {"Array::drop", "Object::drop"}

RECURSIVE Concat(_)
Concat(ss) == IF ss = <<>> THEN <<>> ELSE Head(ss) \o Concat(Tail(ss))

\* The work list of the teardown: what the drain of the composite being torn
\* down still holds, and what drop::safely has on its list.
WorkList == Concat([i \in 1..Len(frames) |-> frames[i].work])

AllIds == NodeIds(RootOwned)

\* The nodes below the root that are not released yet.
Pending == AllIds \ (released \cup {<<>>})

\* C1: dropping a Value of any nesting depth keeps the call stack of the
\* teardown at no more than two frames (the Drop impl of the outermost
\* composite and drop::safely under it), and no Drop impl of a composite is
\* ever entered while another teardown is in progress.
C1_StackDepthConstant ==
    /\ Len(frames) <= 2
    /\ \A i \in 1..Len(frames) : IsDropFrame(frames[i]) => i = 1

\* The innermost node of the deepest chain of nested single-element arrays
\* has been popped, under the outermost Array::drop.
C1_Witness ==
    /\ root = Chain(MaxNodes)
    /\ Pending = {}
    /\ Len(frames) = 2
    /\ frames[1].fn = "Array::drop"

\* C2: the teardown of every finite Value tree terminates with every work
\* list empty, and the teardown of an empty composite ends without a single
\* pop.
C2_TeardownTerminates ==
    /\ <>(dpc = "done" /\ frames = <<>>)
    /\ []((IsComposite(root) /\ ChildValues(root) = <<>>) => ~popped)

\* A teardown of a largest tree has ended, after popping.
C2_Witness ==
    /\ dpc = "done"
    /\ popped
    /\ Cardinality(AllIds) = MaxNodes
    /\ frames = <<>>

\* C3: no node is ever released twice, only nodes of the tree are released,
\* a Value waiting on a work list is owned by that list alone (it is on no
\* other list, not twice on one, and not released), and when the teardown
\* has ended every node of the tree has been released.
C3_ReleasedExactlyOnce ==
    /\ doubled = {}
    /\ released \subseteq AllIds
    /\ \A i, j \in 1..Len(WorkList) : WorkList[i].id = WorkList[j].id => i = j
    /\ \A i \in 1..Len(WorkList) : WorkList[i].id \notin released
    /\ dpc = "done" => released = AllIds

\* The teardown of a largest tree whose first child is an array with a child
\* of its own (consumed by into_iter) has ended.
C3_Witness ==
    /\ dpc = "done"
    /\ released = AllIds
    /\ Cardinality(AllIds) = MaxNodes
    /\ root.tag = "Array"
    /\ root.inner # <<>>
    /\ root.inner[1].tag = "Array"
    /\ root.inner[1].inner # <<>>

\* C10: the work list never holds more values than the tree has nodes; while
\* a chain of nested single-element composites is torn down it holds exactly
\* one value as long as a node below the root is still to be released; and
\* for a tree of depth one it starts with the direct children of the root and
\* holds exactly those not released yet.
C10_WorkListSize ==
    /\ Len(WorkList) <= Cardinality(AllIds)
    /\ (dpc = "dropping" /\ IsChain(root))
          => Len(WorkList) = (IF Pending = {} THEN 0 ELSE 1)
    /\ (dpc = "dropping" /\ Depth(root) = 1)
          => Len(WorkList) = Cardinality(Pending)

\* The work list of the widest tree of depth one, just seeded.
C10_Witness ==
    /\ dpc = "dropping"
    /\ Depth(root) = 1
    /\ Len(ChildValues(root)) = MaxNodes - 1
    /\ Len(WorkList) = MaxNodes - 1
    /\ released = {}

-----------------------------------------------------------------------------
\* Properties of the deserialization protocol

AllBool(vs) == \A i \in 1..Len(vs) : vs[i].tag = "Bool"

\* v is one complete value of the destination type ty.
Complete(v, ty) ==
    IF ty = "bool" THEN v.tag = "Bool"
    ELSE IF ty = "vec_bool" THEN v.tag = "Array" /\ AllBool(v.inner)
    ELSE IF ty = "record"
    THEN /\ v.tag = "Object"
         /\ Len(v.entries) = Len(RecordFields)
         /\ \A i \in 1..Len(RecordFields) :
               /\ v.entries[i].k = RecordFields[i].k
               /\ IF RecordFields[i].ty = "bool" THEN v.entries[i].v.tag = "Bool"
                  ELSE /\ v.entries[i].v.tag = "Array"
                       /\ AllBool(v.entries[i].v.inner)
    ELSE v.tag \in {"Null", "Bool", "Number", "String", "Array", "Object"}

\* A place is empty or holds one complete value of its type.
PlaceOk(p, ty) == p = <<>> \/ (Len(p) = 1 /\ Complete(p[1], ty))

\* A call was made in this step.
Called == calls' = calls + 1

\* C4: a call of a Visitor method that the type of the bound place does not
\* override returns Err, ends the run as failed, and writes nothing: the
\* bound place was empty and is empty afterwards, as is the top-level place.
C4_DefaultsFail ==
    [][(Called /\ last'.m \in Methods /\ last'.m \notin Overrides(last'.ty))
         => /\ res' = "Err"
            /\ pc' = "failed"
            /\ TargetPlace = <<>>
            /\ TargetPlace' = <<>>
            /\ hs' = hs
            /\ out' = <<>>]_vars

\* boolean() was called on the visitor of the record type, which implements
\* only map().
C4_Witness ==
    /\ pc = "failed"
    /\ dest = "record"
    /\ last.m = "boolean"
    /\ last.ty = "record"
    /\ res = "Err"
    /\ out = <<>>

\* C5: every place, the top-level one and the element place of every open
\* handle, is empty or holds one complete value of its type; the top-level
\* place is filled exactly when the run has ended in success, is never
\* changed once filled, and once a call has returned Err it is empty and
\* stays empty.
C5_NoPartialValue ==
    /\ [](/\ PlaceOk(out, dest)
          /\ \A i \in 1..Len(hs) :
                \/ hs[i].slot = <<>>
                \/ /\ hs[i].ty = "record" => hs[i].key # <<>>
                   /\ PlaceOk(hs[i].slot, SlotType(hs[i]))
          /\ out # <<>> <=> pc = "done"
          /\ out # <<>> => res = "Ok"
          /\ res = "Err" => (out = <<>> /\ pc = "failed"))
    /\ [][/\ out # <<>> => out' = out
          /\ res = "Err" => (res' = "Err" /\ out' = <<>>)]_vars

\* A call failed two handles deep, after an element had been collected; the
\* top-level place is empty.
C5_Witness ==
    /\ pc = "failed"
    /\ Len(hs) = 2
    /\ hs[2].vec # <<>>
    /\ out = <<>>

\* C6: as long as a handle is open its finish() has not filled the place it
\* is bound to: the top-level place is empty while any handle is open, the
\* element place under every nested open handle is empty, and a run that is
\* abandoned without finish() leaves the top-level place empty.  A place
\* gets a sequence or a map only in a step that is a successful finish() of
\* the innermost handle, which is the handle bound to that place.
C6_FilledOnlyByFinish ==
    /\ [](/\ hs # <<>> => out = <<>>
          /\ \A i \in 1..(Len(hs) - 1) : hs[i].slot = <<>>
          /\ pc = "abandoned" => out = <<>>)
    /\ [][/\ (out = <<>> /\ out' # <<>> /\ IsComposite(out'[1]))
                => /\ Called
                   /\ last'.m = "finish"
                   /\ res' = "Ok"
                   /\ Len(hs) = 1
                   /\ hs' = <<>>
          /\ \A i \in 1..Len(hs') :
                (/\ i <= Len(hs)
                 /\ hs[i].slot = <<>>
                 /\ hs'[i].slot # <<>>
                 /\ IsComposite(hs'[i].slot[1]))
                => /\ Called
                   /\ last'.m = "finish"
                   /\ res' = "Ok"
                   /\ Len(hs) = i + 1
                   /\ Len(hs') = i]_vars

\* The finish() of a nested handle has returned success and filled the
\* element place of its parent, whose own finish() is still to come.
C6_Witness ==
    /\ last.m = "finish"
    /\ res = "Ok"
    /\ Len(hs) = 1
    /\ hs[1].slot # <<>>
    /\ IsComposite(hs[1].slot[1])
    /\ out = <<>>

\* Every required key of the record has a written value in handle h.
AllSupplied(h) ==
    \A k \in RecordKeys : HasKey(h.vec, k) \/ (h.key = <<k>> /\ h.slot # <<>>)

\* The value last written for key k in handle h.
Supplied(h, k) ==
    IF h.key = <<k>> /\ h.slot # <<>> THEN h.slot[1] ELSE ValueOf(h.vec, k)

\* C7: on the Map handle of the record type, key(k) with an unrecognized k
\* returns Err, the handle holds no value for k before or after, and the
\* place stays empty; and finish() on a handle in which every required key
\* has a written value returns Ok and fills the place with the record made
\* of exactly those values.
C7_MapKeyPolicy ==
    /\ [][(Called /\ last'.m = "key" /\ last'.ty = "record"
              /\ last'.k \notin RecordKeys)
            => /\ res' = "Err"
               /\ pc' = "failed"
               /\ hs' = hs
               /\ ~HasKey(Shifted(TopH), last'.k)
               /\ out' = <<>>]_vars
    /\ [][(Called /\ last'.m = "finish" /\ last'.ty = "record"
              /\ AllSupplied(TopH))
            => /\ res' = "Ok"
               /\ hs' = PopH
               /\ out' = <<ValueObject(
                     [i \in 1..Len(RecordFields) |->
                         [k |-> RecordFields[i].k,
                          v |-> Supplied(TopH, RecordFields[i].k)]])>>]_vars

\* The record has been fully populated, its field b with a one-element
\* vector.
C7_Witness ==
    /\ pc = "done"
    /\ dest = "record"
    /\ last.m = "finish"
    /\ out # <<>>
    /\ out[1].entries[1].v.tag = "Bool"
    /\ out[1].entries[2].v.tag = "Array"
    /\ out[1].entries[2].v.inner # <<>>

-----------------------------------------------------------------------------
\* Properties of serialization

\* C8: replaying the fragments of a Value into a fresh empty place for Value
\* never fails, and when the replay has ended the place holds a Value equal
\* to the original: same variants, same Number representation, same element
\* order, same key order.
C8_RoundTrip ==
    /\ pc # "failed"
    /\ res # "Err"
    /\ pc = "done" => (out = <<orig>> /\ its = <<>> /\ cur = <<>>)

\* An object whose keys are in the order b, a, holding a non-negative signed
\* number and an array, has been rebuilt.
C8_Witness ==
    /\ pc = "done"
    /\ out = <<orig>>
    /\ orig.tag = "Object"
    /\ Len(orig.entries) = 2
    /\ orig.entries[1].k = "b"
    /\ orig.entries[1].v = ValueNumber(NumberI64(1))
    /\ orig.entries[2].v.tag = "Array"
    /\ orig.entries[2].v.inner # <<>>

\* C9: the fragment begin returns for a Value is the one of the value's own
\* variant with the same payload (a Number keeps its representation, an Array
\* yields its elements in index order, an Object its entries in insertion
\* order); begin changes neither the value it is called on nor the tree, and
\* called again on the same value it returns the same fragment.
C9_BeginFaithful ==
    /\ [](frag # <<>> =>
            /\ cur # <<>>
            /\ frag[1].kind \in FragmentKinds
            /\ LET v == cur[1]
                   f == frag[1]
               IN  /\ v.tag = "Null" => f = [kind |-> "Null"]
                   /\ v.tag = "Bool" => (f.kind = "Bool" /\ f.b = v.b)
                   /\ v.tag = "Number" => (f.kind = v.n.rep /\ f.n = v.n.v)
                   /\ v.tag = "String" => (f.kind = "Str" /\ f.s = v.s)
                   /\ v.tag = "Array" =>
                         /\ f.kind = "Seq"
                         /\ Len(f.iter) = Len(v.inner)
                         /\ \A i \in 1..Len(v.inner) : f.iter[i] = v.inner[i]
                   /\ v.tag = "Object" =>
                         /\ f.kind = "Map"
                         /\ Len(f.iter) = Len(v.entries)
                         /\ \A i \in 1..Len(v.entries) :
                               /\ f.iter[i].k = v.entries[i].k
                               /\ f.iter[i].v = v.entries[i].v)
    /\ [][/\ orig' = orig
          /\ (frag # <<>> /\ frag' # <<>>) => frag' = frag
          /\ (frag = <<>> /\ frag' # <<>>) => cur' = cur]_vars

\* begin has returned, a second time, the fragment of an unsigned number
\* nested in an array.
C9_Witness ==
    /\ frag = <<[kind |-> "U64", n |-> 1]>>
    /\ begins = 2
    /\ cur = <<ValueNumber(NumberU64(1))>>
    /\ its # <<>>
    /\ orig.tag = "Array"

====
